---------------------------- MODULE Spec2Model ----------------------------
(***************************************************************************)
(* A model of riscv/devices.cc: the address-space bus (bus_t), the sparse  *)
(* memory device (mem_t), the MMIO plugin registry with its device adapter *)
(* (mmio_plugin_device_t) and the file-backed plugin (file_plugin).        *)
(*                                                                         *)
(* The bus, the memory device and the plugin machinery do not share state,  *)
(* so each has a specification of its own over the same variables:         *)
(* BusSpec, MemSpec and PluginSpec.  A specification leaves the other      *)
(* components' variables as its Init set them.                             *)
(***************************************************************************)
EXTENDS Integers, Sequences, FiniteSets, TLC

VARIABLES
  devices,     \* bus_t::devices, std::map<reg_t, abstract_device_t*>
  addLog,      \* history: the add_device calls made so far, in order
  busRes,      \* the last bus operation: its arguments, the device calls it made, its result
  memSz,              \* mem_t::sz
  sparse_memory_map,  \* mem_t::sparse_memory_map, std::map<reg_t, char*>: page number -> page
  shadow,             \* history: per device byte, the byte of the latest in-range store covering it
  memRes,             \* the last mem_t access: its arguments, the buffer before and after, its result
  memOps,             \* the number of mem_t accesses made
  memLive,            \* the mem_t object: "none" before construction, "live", "destroyed"
  pageAllocs,         \* history: per page number, the calloc calls made for it
  pageFrees,          \* history: per page number, the free calls made for its buffer
  touched,            \* history: the pages overlapped by the accepted accesses of non-zero length
  mmio_plugin_map,    \* the registry: std::map<std::string, mmio_plugin_t>, name -> plugin
  regLog,             \* history: the register_mmio_plugin calls made so far, in order
  adapters,           \* the mmio_plugin_device_t objects constructed so far, in order
  plugRes,            \* the last registry or adapter operation, with the plugin calls it made
  openFds,            \* the process's open file descriptors
  liveMaps,           \* the process's memory mappings: address -> [length, writable]
  fileHeap,           \* the malloc'ed struct file_plugin_data objects: pointer -> struct
  fileBytes,          \* the contents of the file "f", which every mapping of it shares
  fileRes,            \* the last direct call of a file plugin function, with its result
  fileOps,            \* the number of direct calls of file plugin functions made
  handleArgs,         \* history: the args each live handle was allocated with
  lastStore           \* history: the last accepted file_plugin_store call

busVars == <<devices, addLog, busRes>>

memVars ==
  <<memSz, sparse_memory_map, shadow, memRes, memOps, memLive, pageAllocs, pageFrees, touched>>

\* The operating system's and the file plugin's state.
osVars == <<openFds, liveMaps, fileHeap, fileBytes>>

\* The registry's and the adapters' state.
regVars == <<mmio_plugin_map, regLog, adapters, plugRes>>

plugVars == <<regVars, osVars>>

\* The record of the direct calls of the file plugin's functions.
fileCallVars == <<fileRes, fileOps, handleArgs, lastStore>>

vars ==
  <<devices, addLog, busRes, memSz, sparse_memory_map, shadow, memRes, memOps,
    memLive, pageAllocs, pageFrees, touched,
    mmio_plugin_map, regLog, adapters, plugRes, openFds, liveMaps, fileHeap,
    fileBytes, fileRes, fileOps, handleArgs, lastStore>>

\* What an operation of one component leaves alone: the other components.
notBusVars == <<memVars, plugVars, fileCallVars>>

notMemVars == <<busVars, plugVars, fileCallVars>>

notPlugVars == <<busVars, memVars, fileCallVars>>

notFileVars == <<busVars, memVars, regVars>>

(***************************************************************************)
(* Generic helpers.                                                        *)
(***************************************************************************)
Min(S) == CHOOSE x \in S : \A y \in S : x <= y

Max(S) == CHOOSE x \in S : \A y \in S : x >= y

Range(f) == {f[x] : x \in DOMAIN f}

(***************************************************************************)
(* Bounds of the bus model.                                                *)
(***************************************************************************)
\* Bus addresses (and device bases) are 0..MaxAddr.
MaxAddr == 3

\* At most MaxAdds add_device calls are made.
MaxAdds == 2

Addrs == 0..MaxAddr

\* The devices the owner of the bus binds (abstract_device_t objects it keeps alive).
Devs == {"devA", "devB"}

\* Access lengths a caller passes.
BusLens == {1, 4}

\* (abstract_device_t*)NULL
NULL == "NULL"

\* The caller's buffer as handed in, and as a device leaves it after a load it accepts.
CallerBuf == "caller"

DevBuf(dev) == <<"filled", dev>>

(***************************************************************************)
(* std::map<reg_t, abstract_device_t*> as a function on its keys.  An      *)
(* iterator is the key it points at, or MapEnd for end().                  *)
(***************************************************************************)
MapEnd == -1

\* devices.begin(): the smallest key, end() for an empty map
map_begin(m) == IF DOMAIN m = {} THEN MapEnd ELSE Min(DOMAIN m)

\* devices.empty()
map_empty(m) == DOMAIN m = {}

\* A plausible slip: lower_bound, the first key not less than addr.
lower_bound(m, addr) ==
  IF \E k \in DOMAIN m : k >= addr
    THEN Min({k \in DOMAIN m : k >= addr})
    ELSE MapEnd

\* devices.upper_bound(addr): the first key strictly greater than addr, else end()
upper_bound(m, addr) ==
  IF \E k \in DOMAIN m : k > addr
    THEN Min({k \in DOMAIN m : k > addr})
    ELSE MapEnd

\* it--: the key before it (the last key when it is end()); only called when it != begin()
map_prev(m, it) ==
  IF it = MapEnd
    THEN Max(DOMAIN m)
    ELSE Max({k \in DOMAIN m : k < it})

\* A plausible slip: insert-if-absent (std::map::emplace) instead of operator[] assignment.
add_device_emplace(m, addr, dev) ==
  IF addr \in DOMAIN m THEN m
  ELSE [k \in DOMAIN m \cup {addr} |-> IF k = addr THEN dev ELSE m[k]]

\* devices[addr] = dev
add_device(m, addr, dev) ==
  [k \in DOMAIN m \cup {addr} |-> IF k = addr THEN dev ELSE m[k]]

\* What bus_t::load / bus_t::store resolve: no device, or the device to call with its offset.
NoTarget == [found |-> FALSE, base |-> 0, dev |-> NULL, off |-> 0]

\* bus_t::load up to the delegation: upper_bound, the empty/begin test, it--, addr - it->first
bus_load_target(m, addr) ==
  LET it == upper_bound(m, addr) IN
    IF map_empty(m) \/ it = map_begin(m)
      THEN NoTarget
      ELSE LET p == map_prev(m, it) IN
             [found |-> TRUE, base |-> p, dev |-> m[p], off |-> addr - p]

\* bus_t::store up to the delegation
bus_store_target(m, addr) ==
  LET it == upper_bound(m, addr) IN
    IF map_empty(m) \/ it = map_begin(m)
      THEN NoTarget
      ELSE LET p == map_prev(m, it) IN
             [found |-> TRUE, base |-> p, dev |-> m[p], off |-> addr - p]

\* A plausible slip: the iterator is not stepped back.
bus_find_device_nostep(m, addr) ==
  LET it == upper_bound(m, addr) IN
    IF map_empty(m) \/ it = map_begin(m) \/ it = MapEnd
      THEN <<0, NULL>>
      ELSE <<it, m[it]>>

\* bus_t::find_device
bus_find_device(m, addr) ==
  LET it == upper_bound(m, addr) IN
    IF map_empty(m) \/ it = map_begin(m)
      THEN <<0, NULL>>
      ELSE LET p == map_prev(m, it) IN <<p, m[p]>>

(***************************************************************************)
(* The bus's operations.                                                   *)
(***************************************************************************)
BusIdle ==
  [op |-> "none", addr |-> 0, len |-> 0, ret |-> FALSE, invoked |-> <<>>,
   devRet |-> FALSE, buf |-> CallerBuf, found |-> <<0, NULL>>]

BusInitVars ==
  /\ devices = <<>>
  /\ addLog = <<>>
  /\ busRes = BusIdle

\* bus_t::add_device(addr, dev)
AddDevice(addr, dev) ==
  /\ Len(addLog) < MaxAdds
  /\ devices' = add_device(devices, addr, dev)
  /\ addLog' = Append(addLog, [base |-> addr, dev |-> dev])
  /\ busRes' = [BusIdle EXCEPT !.op = "add_device", !.addr = addr]
  /\ UNCHANGED notBusVars

\* A plausible slip: a refusal of the device is masked.
bus_result_masked(r) == TRUE

\* return it->second->load(addr - it->first, len, bytes): the device's answer r is the
\* bus's answer (the same in store)
bus_result(r) == r

\* bus_t::load(addr, len, bytes).  The device's own load is a virtual call: it
\* answers r, and fills the buffer when it accepts.
BusLoad(addr, len) ==
  LET t == bus_load_target(devices, addr) IN
    /\ \E r \in BOOLEAN :
         busRes' =
           IF ~t.found
             THEN [BusIdle EXCEPT !.op = "load", !.addr = addr, !.len = len]
             ELSE [op |-> "load", addr |-> addr, len |-> len, ret |-> bus_result(r),
                   invoked |-> <<[dev |-> t.dev, fn |-> "load", off |-> t.off, len |-> len]>>,
                   devRet |-> r,
                   buf |-> IF r THEN DevBuf(t.dev) ELSE CallerBuf,
                   found |-> <<0, NULL>>]
    /\ UNCHANGED <<devices, addLog>>
    /\ UNCHANGED notBusVars

\* bus_t::store(addr, len, bytes)
BusStore(addr, len) ==
  LET t == bus_store_target(devices, addr) IN
    /\ \E r \in BOOLEAN :
         busRes' =
           IF ~t.found
             THEN [BusIdle EXCEPT !.op = "store", !.addr = addr, !.len = len]
             ELSE [op |-> "store", addr |-> addr, len |-> len, ret |-> bus_result(r),
                   invoked |-> <<[dev |-> t.dev, fn |-> "store", off |-> t.off, len |-> len]>>,
                   devRet |-> r,
                   buf |-> CallerBuf,
                   found |-> <<0, NULL>>]
    /\ UNCHANGED <<devices, addLog>>
    /\ UNCHANGED notBusVars

\* bus_t::find_device(addr)
BusFindDevice(addr) ==
  /\ busRes' = [BusIdle EXCEPT !.op = "find_device", !.addr = addr,
                               !.found = bus_find_device(devices, addr)]
  /\ UNCHANGED <<devices, addLog>>
  /\ UNCHANGED notBusVars


(***************************************************************************)
(* mem_t, the sparse memory device.  The model scales the machine down:    *)
(* reg_t and size_t are RegBits wide (64 in the build), a page is          *)
(* 2^PGSHIFT bytes (PGSHIFT is 12 in the build) and the device has         *)
(* MemPages pages.  Sums of reg_t wrap modulo 2^RegBits as they do in C++. *)
(***************************************************************************)
RECURSIVE Pow2(_)
Pow2(n) == IF n = 0 THEN 1 ELSE 2 * Pow2(n - 1)

\* log2 of the page size (scaled).
PGSHIFT == 1

\* The width of reg_t and size_t in bits (scaled).
RegBits == 3

\* The size of the device in pages.
MemPages == 2

\* At most MaxMemOps accesses are made to the device.
MaxMemOps == 2

PGSIZE == Pow2(PGSHIFT)

RegMod == Pow2(RegBits)

RegVals == 0..(RegMod - 1)

\* The lengths a caller passes: nothing, one byte, a page, more than a page, (size_t)-1.
MemLens == {0, 1, PGSIZE, PGSIZE + 1, RegMod - 1}

\* The bytes the k-th access stores: no two stores write the same byte value, and the
\* bytes of one store differ by position.
StoreBuf(k, len) == [i \in 1..len |-> (16 * k + i) % 256]

\* The caller's buffer before a load.
LoadBuf(len) == [i \in 1..len |-> 255]

\* calloc(PGSIZE, 1)
ZeroPage == [o \in 0..(PGSIZE - 1) |-> 0]

\* A plausible slip: the wrap-around of addr + len is not tested.
mem_out_of_range_nowrap(addr, len, sz) == (addr + len) % RegMod > sz

\* addr + len < addr || addr + len > sz, in reg_t arithmetic
mem_out_of_range(addr, len, sz) ==
  \/ (addr + len) % RegMod < addr
  \/ (addr + len) % RegMod > sz

\* A plausible slip: the in-page offset is dropped from the returned pointer.
contents_nopgoff(map, addr) ==
  LET ppn == addr \div PGSIZE IN
    [map |-> IF ppn \in DOMAIN map THEN map
             ELSE [k \in DOMAIN map \cup {ppn} |-> IF k = ppn THEN ZeroPage ELSE map[k]],
     ppn |-> ppn, pgoff |-> 0, alloc |-> ppn \notin DOMAIN map]

\* A plausible slip: the page is allocated anew on every call, found or not.
contents_realloc(map, addr) ==
  LET ppn == addr \div PGSIZE
      pgoff == addr % PGSIZE
  IN [map |-> [k \in DOMAIN map \cup {ppn} |-> IF k = ppn THEN ZeroPage ELSE map[k]],
      ppn |-> ppn, pgoff |-> pgoff, alloc |-> TRUE]

\* mem_t::contents(addr): the page of addr, allocated zero-filled when absent, and the
\* offset in it.  The returned char* is the pair (ppn, pgoff); map is the map afterwards
\* and alloc tells whether calloc was called.
contents(map, addr) ==
  LET ppn == addr \div PGSIZE
      pgoff == addr % PGSIZE
  IN [map |-> IF ppn \in DOMAIN map THEN map
              ELSE [k \in DOMAIN map \cup {ppn} |-> IF k = ppn THEN ZeroPage ELSE map[k]],
      ppn |-> ppn, pgoff |-> pgoff, alloc |-> ppn \notin DOMAIN map]

\* A plausible slip: the loop copies one byte per iteration.
chunk_size_byte(addr, len) == IF 1 < len THEN 1 ELSE len

\* std::min(PGSIZE - (addr % PGSIZE), reg_t(len))
chunk_size(addr, len) ==
  IF PGSIZE - (addr % PGSIZE) < len THEN PGSIZE - (addr % PGSIZE) ELSE len

\* The while loop of mem_t::load_store.  bytes is the caller's whole buffer and pos
\* the number of bytes the bytes pointer has advanced; chunks lists the iterations
\* made so far: the address and the size of the memcpy, the position in the buffer,
\* the page and the in-page offset contents() returned and whether it allocated.
RECURSIVE load_store_loop(_, _, _, _, _, _, _)
load_store_loop(map, addr, len, bytes, pos, store, chunks) ==
  IF ~(len > 0)
    THEN [map |-> map, bytes |-> bytes, chunks |-> chunks]
    ELSE
      LET n == chunk_size(addr, len)
          c == contents(map, addr)
          page == c.map[c.ppn]
          \* memcpy(this->contents(addr), bytes, n)
          stored == [o \in 0..(PGSIZE - 1) |->
                       IF c.pgoff <= o /\ o < c.pgoff + n
                         THEN bytes[pos + 1 + (o - c.pgoff)]
                         ELSE page[o]]
          \* memcpy(bytes, this->contents(addr), n)
          loaded == [i \in 1..Len(bytes) |->
                       IF pos < i /\ i <= pos + n
                         THEN page[c.pgoff + (i - pos - 1)]
                         ELSE bytes[i]]
      IN load_store_loop(
           IF store THEN [c.map EXCEPT ![c.ppn] = stored] ELSE c.map,
           (addr + n) % RegMod,
           len - n,
           IF store THEN bytes ELSE loaded,
           pos + n,
           store,
           Append(chunks, [addr |-> addr, n |-> n, pos |-> pos, ppn |-> c.ppn,
                           pgoff |-> c.pgoff, alloc |-> c.alloc]))

\* A plausible slip: the copy direction is ignored and every access copies into memory.
load_store_always_store(map, sz, addr, len, bytes, store) ==
  IF mem_out_of_range(addr, len, sz)
    THEN [ret |-> FALSE, map |-> map, bytes |-> bytes, chunks |-> <<>>]
    ELSE LET r == load_store_loop(map, addr, len, bytes, 0, TRUE, <<>>)
         IN [ret |-> TRUE, map |-> r.map, bytes |-> r.bytes, chunks |-> r.chunks]

\* mem_t::load_store(addr, len, bytes, store): the result, the map and the buffer
\* afterwards, and the iterations of the loop
load_store(map, sz, addr, len, bytes, store) ==
  IF mem_out_of_range(addr, len, sz)
    THEN [ret |-> FALSE, map |-> map, bytes |-> bytes, chunks |-> <<>>]
    ELSE LET r == load_store_loop(map, addr, len, bytes, 0, store, <<>>)
         IN [ret |-> TRUE, map |-> r.map, bytes |-> r.bytes, chunks |-> r.chunks]

\* A plausible slip: a size of zero is not refused.
mem_ctor_throws_nozero(size) == size % PGSIZE # 0

\* mem_t::mem_t(size): if (size == 0 || size % PGSIZE != 0) throw std::runtime_error(...)
mem_ctor_throws(size) == size = 0 \/ size % PGSIZE # 0

(***************************************************************************)
(* The sparse memory device's operations.                                  *)
(***************************************************************************)
\* The sizes mem_t is constructed with: zero, one byte, a page, a page and a byte, the
\* device of MemPages pages, (reg_t)-1.
MemSizes == {0, 1, PGSIZE, PGSIZE + 1, MemPages * PGSIZE, RegMod - 1}

MemIdle ==
  [op |-> "none", size |-> 0, threw |-> FALSE, addr |-> 0, len |-> 0, ret |-> FALSE,
   bufIn |-> <<>>, buf |-> <<>>, chunks |-> <<>>]

\* Before any mem_t is constructed.
MemInitVars ==
  /\ memSz = 0
  /\ sparse_memory_map = <<>>
  /\ shadow = <<>>
  /\ memRes = MemIdle
  /\ memOps = 0
  /\ memLive = "none"
  /\ pageAllocs = <<>>
  /\ pageFrees = <<>>
  /\ touched = {}

\* A count per key, with one more for each key in the sequence ks.
RECURSIVE CountMore(_, _)
CountMore(f, ks) ==
  IF ks = <<>> THEN f
  ELSE CountMore([x \in DOMAIN f \cup {Head(ks)} |->
                    (IF x \in DOMAIN f THEN f[x] ELSE 0) + (IF x = Head(ks) THEN 1 ELSE 0)],
                 Tail(ks))

\* The pages the bytes [addr, addr + len) lie in.
PagesOverlapped(addr, len) == {a \div PGSIZE : a \in addr..(addr + len - 1)}

\* mem_t::mem_t(size): sz(size), an empty sparse_memory_map; no object when it throws
MemConstruct(size) ==
  /\ memLive = "none"
  /\ IF mem_ctor_throws(size)
       THEN /\ memRes' = [MemIdle EXCEPT !.op = "construct", !.size = size, !.threw = TRUE]
            /\ UNCHANGED <<memSz, sparse_memory_map, shadow, memLive>>
       ELSE /\ memRes' = [MemIdle EXCEPT !.op = "construct", !.size = size]
            /\ memSz' = size
            /\ sparse_memory_map' = <<>>
            /\ shadow' = [a \in 0..(size - 1) |-> 0]
            /\ memLive' = "live"
  /\ UNCHANGED <<memOps, pageAllocs, pageFrees, touched>>
  /\ UNCHANGED notMemVars

\* mem_t::~mem_t(): free(entry.second) for every entry of sparse_memory_map
MemDestroy ==
  /\ memLive = "live"
  /\ memLive' = "destroyed"
  /\ pageFrees' = CountMore(pageFrees,
                            [i \in 1..Cardinality(DOMAIN sparse_memory_map) |->
                               CHOOSE k \in DOMAIN sparse_memory_map :
                                 Cardinality({j \in DOMAIN sparse_memory_map : j < k}) = i - 1])
  /\ memRes' = [MemIdle EXCEPT !.op = "destroy"]
  /\ UNCHANGED <<memSz, sparse_memory_map, shadow, memOps, pageAllocs, touched>>
  /\ UNCHANGED notMemVars

\* The history of an access: an in-range store overwrites the bytes it covers.
ShadowAfter(addr, len, bytes, store) ==
  IF store /\ addr + len <= memSz
    THEN [a \in DOMAIN shadow |->
            IF addr <= a /\ a < addr + len THEN bytes[a - addr + 1] ELSE shadow[a]]
    ELSE shadow

\* The pages for which the iterations in chunks called calloc, in order.
RECURSIVE AllocatedIn(_)
AllocatedIn(chunks) ==
  IF chunks = <<>> THEN <<>>
  ELSE (IF Head(chunks).alloc THEN <<Head(chunks).ppn>> ELSE <<>>) \o AllocatedIn(Tail(chunks))

\* mem_t::load(addr, len, bytes) == load_store(addr, len, bytes, false)
MemLoad(addr, len) ==
  LET r == load_store(sparse_memory_map, memSz, addr, len, LoadBuf(len), FALSE) IN
    /\ memLive = "live"
    /\ memOps < MaxMemOps
    /\ memOps' = memOps + 1
    /\ sparse_memory_map' = r.map
    /\ memRes' = [MemIdle EXCEPT !.op = "load", !.addr = addr, !.len = len, !.ret = r.ret,
                                 !.bufIn = LoadBuf(len), !.buf = r.bytes,
                                 !.chunks = r.chunks]
    /\ shadow' = ShadowAfter(addr, len, LoadBuf(len), FALSE)
    /\ pageAllocs' = CountMore(pageAllocs, AllocatedIn(r.chunks))
    /\ touched' = IF addr + len <= memSz THEN touched \cup PagesOverlapped(addr, len)
                  ELSE touched
    /\ UNCHANGED <<memSz, memLive, pageFrees>>
    /\ UNCHANGED notMemVars

\* mem_t::store(addr, len, bytes) == load_store(addr, len, (uint8_t*)bytes, true)
MemStore(addr, len) ==
  LET in == StoreBuf(memOps + 1, len)
      r == load_store(sparse_memory_map, memSz, addr, len, in, TRUE)
  IN
    /\ memLive = "live"
    /\ memOps < MaxMemOps
    /\ memOps' = memOps + 1
    /\ sparse_memory_map' = r.map
    /\ memRes' = [MemIdle EXCEPT !.op = "store", !.addr = addr, !.len = len, !.ret = r.ret,
                                 !.bufIn = in, !.buf = r.bytes, !.chunks = r.chunks]
    /\ shadow' = ShadowAfter(addr, len, in, TRUE)
    /\ pageAllocs' = CountMore(pageAllocs, AllocatedIn(r.chunks))
    /\ touched' = IF addr + len <= memSz THEN touched \cup PagesOverlapped(addr, len)
                  ELSE touched
    /\ UNCHANGED <<memSz, memLive, pageFrees>>
    /\ UNCHANGED notMemVars


(***************************************************************************)
(* The operating system as file_plugin_alloc and file_plugin_dealloc see   *)
(* it.  Pointers and descriptors are integers: NullPtr is NULL, MAP_FAILED *)
(* is the pointer -1, a descriptor is >= 3, an error return is -1.  A call *)
(* succeeds or fails as the action's parameter oc says, within what the    *)
(* file system allows.                                                     *)
(***************************************************************************)
NullPtr == 0

MAP_FAILED == -1

\* The length in bytes of the regular file "f".
FileLen == 4

\* A string is the sequence of its characters.
PathF == <<"f">>

PathE == <<"e">>

\* The files that exist: "f" holds FileLen bytes, "e" is empty.  No other path exists.
FsExists(path) == path \in {PathF, PathE}

FsLength(path) == IF path = PathF THEN FileLen ELSE 0

\* The smallest integer >= lo that is not in used.
Fresh(lo, used) == Min({n \in lo..(lo + Cardinality(used)) : n \notin used})

\* open(filename, writable ? O_RDWR : O_RDONLY): the lowest free descriptor, or -1
os_open(filename, fds) == IF FsExists(filename) THEN Fresh(3, fds) ELSE -1

\* lseek(fd, 0, SEEK_END): the file's length, or -1
os_lseek(filename, ok) == IF ok THEN FsLength(filename) ELSE -1

\* mmap(NULL, length, prot, MAP_SHARED, fd, 0): a fresh address, or MAP_FAILED.  A
\* length of -1 is SIZE_MAX as a size_t, which no mapping can have.
os_mmap(length, ok, maps) ==
  IF ok /\ length > 0 THEN Fresh(1, DOMAIN maps) ELSE MAP_FAILED

\* close(fd): 0 or -1.  The descriptor is released either way, as on Linux.
os_close(ok) == IF ok THEN 0 ELSE -1

\* malloc(sizeof(struct file_plugin_data)): a fresh pointer, or NULL
os_malloc(ok, heap) == IF ok THEN Fresh(1, DOMAIN heap) ELSE NullPtr

\* The outcomes of lseek, mmap, close and malloc in one call of file_plugin_alloc.
OsOutcomes == [seek : BOOLEAN, mmap : BOOLEAN, close : BOOLEAN, malloc : BOOLEAN]

\* The outcomes the model follows: all four calls succeed, or one of them fails.
FileOutcomes ==
  {oc \in OsOutcomes : Cardinality({c \in {"seek", "mmap", "close", "malloc"} : ~oc[c]}) <= 1}

(***************************************************************************)
(* The file plugin.                                                        *)
(***************************************************************************)
\* strchr(args, ':'): the index of the first colon, 0 for NULL
strchr_colon(args) ==
  IF \E i \in 1..Len(args) : args[i] = ":"
    THEN Min({i \in 1..Len(args) : args[i] = ":"})
    ELSE 0

\* A plausible slip: a flag that is not 'w' is skipped.
RECURSIVE parse_flags_lenient(_, _, _, _)
parse_flags_lenient(args, colon, i, writable) ==
  IF ~(i < colon)
    THEN [ok |-> TRUE, writable |-> writable]
    ELSE parse_flags_lenient(args, colon, i + 1, writable \/ args[i] = "w")

\* The flag loop of file_plugin_alloc from position i: every flag before the colon
\* must be 'w'; any other character makes alloc return NULL.
RECURSIVE parse_flags(_, _, _, _)
parse_flags(args, colon, i, writable) ==
  IF ~(i < colon)
    THEN [ok |-> TRUE, writable |-> writable]
    ELSE IF args[i] = "w"
           THEN parse_flags(args, colon, i + 1, TRUE)
           ELSE [ok |-> FALSE, writable |-> writable]

\* What one call of file_plugin_alloc did: its return value, the statement it returned
\* from, the name it passed to open() (empty when it did not reach open), the
\* descriptor open() gave it and whether it is still open, the address mmap gave it and
\* whether that mapping is still established, and the struct it filled.
AllocResult(ret, step, filename, fd, fdOpen, addr, mapLive, length, writable) ==
  [ret |-> ret, step |-> step, filename |-> filename, fd |-> fd, fdOpen |-> fdOpen,
   addr |-> addr, mapLive |-> mapLive, length |-> length, writable |-> writable,
   data |-> [fd |-> fd, addr |-> addr, length |-> length % RegMod, writable |-> writable]]

NoAlloc == AllocResult(NullPtr, "none", <<>>, -1, FALSE, NullPtr, FALSE, 0, FALSE)

\* file_plugin_alloc(args)
file_plugin_alloc(args, oc, fds, maps, heap) ==
  LET colon == strchr_colon(args)
      filename == IF colon = 0 THEN args ELSE SubSeq(args, colon + 1, Len(args))
      flags == IF colon = 0 THEN [ok |-> TRUE, writable |-> FALSE]
               ELSE parse_flags(args, colon, 1, FALSE)
      writable == flags.writable
      fd == os_open(filename, fds)
      length == os_lseek(filename, oc.seek)
      addr == os_mmap(length, oc.mmap, maps)
      mapped == addr # MAP_FAILED
      data == os_malloc(oc.malloc, heap)
  IN
    IF ~flags.ok THEN
      AllocResult(NullPtr, "flags", <<>>, -1, FALSE, NullPtr, FALSE, 0, writable)
    ELSE IF fd < 0 THEN
      AllocResult(NullPtr, "open", filename, fd, FALSE, NullPtr, FALSE, 0, writable)
    ELSE IF length = 0 THEN
      \* (void) close(fd); return NULL;
      AllocResult(NullPtr, "length", filename, fd, FALSE, NullPtr, FALSE, length, writable)
    ELSE IF addr = NullPtr THEN
      \* (void) close(fd); return NULL;
      AllocResult(NullPtr, "mmap", filename, fd, FALSE, addr, FALSE, length, writable)
    ELSE IF os_close(oc.close) # 0 THEN
      \* return NULL;
      AllocResult(NullPtr, "close", filename, fd, FALSE, addr, mapped, length, writable)
    ELSE IF data = NullPtr THEN
      \* (void) munmap(addr, length); return NULL;
      AllocResult(NullPtr, "malloc", filename, fd, FALSE, addr, FALSE, length, writable)
    ELSE
      AllocResult(data, "ok", filename, fd, FALSE, addr, mapped, length, writable)

\* The bytes of the file "f" when the program starts: byte i holds 1 + i.
FileInitBytes == [i \in 0..(FileLen - 1) |-> 1 + i]

\* What undefined behaviour may come to in a load or a store: the value a call on a
\* null handle returns, and the byte a read outside every mapping yields.
JunkBytes == {0, 170}

UbOutcomes == [ret : BOOLEAN, junk : JunkBytes]

\* What a call of a plugin's load or store did: its return value, whether it ran into
\* undefined behaviour (a null pointer dereferenced, memory outside the mapping
\* touched), the caller's buffer afterwards and the file's bytes afterwards.
AccessResult(ret, ub, buffer, file) ==
  [ret |-> ret, ub |-> ub, buffer |-> buffer, file |-> file]

\* Whether byte a of the region at address addr is a byte of an established mapping.
\* Only "f" has a length a mapping can have, so every mapping is a MAP_SHARED mapping
\* of "f" from its start, and its byte a is byte a of the file.
in_mapping(addr, a, maps) == addr \in DOMAIN maps /\ a < maps[addr].length

\* A variant: a load whose tail runs past the recorded length is refused.
file_plugin_load_checked(data, offset, width, buffer, heap, maps, file, ubo) ==
  IF data = NullPtr THEN AccessResult(ubo.ret, TRUE, buffer, file)
  ELSE IF offset + width > heap[data].length THEN AccessResult(FALSE, FALSE, buffer, file)
  ELSE AccessResult(TRUE, \E i \in 0..(width - 1) : ~in_mapping(heap[data].addr, offset + i, maps),
                    [i \in 1..width |->
                       IF in_mapping(heap[data].addr, offset + i - 1, maps)
                         THEN file[offset + i - 1] ELSE ubo.junk],
                    file)

\* file_plugin_load(data, offset, width, buffer): memmove(buffer, data2->addr + offset,
\* width) copies the bytes of the mapping from offset on; a byte it reads outside the
\* mapping is whatever lies there.
file_plugin_load(data, offset, width, buffer, heap, maps, file, ubo) ==
  IF data = NullPtr THEN AccessResult(ubo.ret, TRUE, buffer, file)
  ELSE IF offset >= heap[data].length THEN AccessResult(FALSE, FALSE, buffer, file)
  ELSE AccessResult(TRUE, \E i \in 0..(width - 1) : ~in_mapping(heap[data].addr, offset + i, maps),
                    [i \in 1..width |->
                       IF in_mapping(heap[data].addr, offset + i - 1, maps)
                         THEN file[offset + i - 1] ELSE ubo.junk],
                    file)

\* A plausible slip: the writable flag is not tested.
file_plugin_store_nowritable(data, offset, width, buffer, heap, maps, file, ubo) ==
  IF data = NullPtr THEN AccessResult(ubo.ret, TRUE, buffer, file)
  ELSE IF offset >= heap[data].length THEN AccessResult(FALSE, FALSE, buffer, file)
  ELSE AccessResult(TRUE, \E i \in 0..(width - 1) : ~in_mapping(heap[data].addr, offset + i, maps),
                    buffer,
                    [a \in DOMAIN file |->
                       IF /\ in_mapping(heap[data].addr, a, maps)
                          /\ offset <= a
                          /\ a < offset + width
                         THEN buffer[a - offset + 1] ELSE file[a]])

\* file_plugin_store(data, offset, width, buffer): memmove(data2->addr + offset, buffer,
\* width) writes the bytes of the mapping from offset on, and so the file's; what it
\* writes outside the mapping does not reach the file.
file_plugin_store(data, offset, width, buffer, heap, maps, file, ubo) ==
  IF data = NullPtr THEN AccessResult(ubo.ret, TRUE, buffer, file)
  ELSE IF ~heap[data].writable \/ offset >= heap[data].length
    THEN AccessResult(FALSE, FALSE, buffer, file)
  ELSE AccessResult(TRUE, \E i \in 0..(width - 1) : ~in_mapping(heap[data].addr, offset + i, maps),
                    buffer,
                    [a \in DOMAIN file |->
                       IF /\ in_mapping(heap[data].addr, a, maps)
                          /\ offset <= a
                          /\ a < offset + width
                         THEN buffer[a - offset + 1] ELSE file[a]])

\* Removing key k from a map (a no-op when k is absent).
Without(m, k) == [x \in DOMAIN m \ {k} |-> m[x]]

\* file_plugin_dealloc(data): the mappings and the heap afterwards.  munmap of an
\* address that is no mapping fails, and the failure is ignored; free(NULL) does nothing.
file_plugin_dealloc(data, heap, maps) ==
  IF data # NullPtr
    THEN [maps |-> Without(maps, heap[data].addr), heap |-> Without(heap, data)]
    ELSE [maps |-> maps, heap |-> heap]

(***************************************************************************)
(* The plugin registry and mmio_plugin_device_t.  Besides the file plugin  *)
(* ("file_plugin", registered as "file" by init_file_plugin before main)   *)
(* there are two plugins of the embedding program, "D" and "D2", whose     *)
(* functions are opaque: alloc returns a handle of its own or NULL, load   *)
(* and store return what they like.                                        *)
(***************************************************************************)
\* At most MaxRegs calls of register_mmio_plugin are made after start-up.
MaxRegs == 2

\* At most MaxAdapters mmio_plugin_device_t objects are constructed.
MaxAdapters == 1

UserPlugins == {"D", "D2"}

\* The (name, plugin) pairs the embedding program registers.
RegCalls == {<<"dup", "D">>, <<"dup", "D2">>, <<"file", "D2">>}

\* The names devices are constructed with; "dup" is unknown until it is registered.
PluginNames == {"file", "dup"}

\* The args devices are constructed with: "f", "w:f", "x:f", "e", "n".
PluginArgs ==
  {<<"f">>, <<"w", ":", "f">>, <<"x", ":", "f">>, <<"e">>, <<"n">>}

\* The offsets and the lengths of the accesses made through an adapter.
PlugOffsets == {0, FileLen}

PlugLens == {1}

\* The handle a user plugin's alloc returns for the n-th device.
UserHandle(n) == 100 + n

\* A plausible slip: operator[] assignment, which replaces an existing registration.
register_mmio_plugin_assign(map, name, plugin) ==
  [map |-> [k \in DOMAIN map \cup {name} |-> IF k = name THEN plugin ELSE map[k]],
   threw |-> FALSE]

\* register_mmio_plugin(name, plugin): emplace inserts only when the name is absent,
\* and the function throws std::runtime_error when it did not insert.
register_mmio_plugin(map, name, plugin) ==
  IF name \in DOMAIN map
    THEN [map |-> map, threw |-> TRUE]
    ELSE [map |-> [k \in DOMAIN map \cup {name} |-> IF k = name THEN plugin ELSE map[k]],
          threw |-> FALSE]

\* The arguments a plugin's load or store was called with besides the handle, and what
\* it returned.
NoForward == [offset |-> 0, len |-> 0, bytes |-> <<>>, ret |-> FALSE]

PlugIdle ==
  [op |-> "none", name |-> "", args |-> <<>>, obj |-> 0, offset |-> 0, len |-> 0,
   bufIn |-> <<>>, buf |-> <<>>, ret |-> FALSE, ub |-> FALSE, threw |-> "none",
   invoked |-> <<>>, fwd |-> NoForward, alloc |-> NoAlloc]

\* One call of a plugin function, as an adapter makes it.
PluginCall(fn, plugin, handle) == [fn |-> fn, plugin |-> plugin, handle |-> handle]

\* The state when main starts: init_file_plugin has registered the file plugin.
PlugInitVars ==
  /\ mmio_plugin_map = [n \in {"file"} |-> "file_plugin"]
  /\ regLog = <<[name |-> "file", plugin |-> "file_plugin"]>>
  /\ adapters = <<>>
  /\ plugRes = PlugIdle
  /\ openFds = {}
  /\ liveMaps = <<>>
  /\ fileHeap = <<>>
  /\ fileBytes = FileInitBytes

\* register_mmio_plugin(name, &plugin)
RegisterMmioPlugin(name, plugin) ==
  LET r == register_mmio_plugin(mmio_plugin_map, name, plugin) IN
    /\ Len(regLog) < 1 + MaxRegs
    /\ mmio_plugin_map' = r.map
    /\ regLog' = Append(regLog, [name |-> name, plugin |-> plugin])
    /\ plugRes' = [PlugIdle EXCEPT !.op = "register", !.name = name,
                                   !.threw = IF r.threw THEN "runtime_error" ELSE "none"]
    /\ UNCHANGED <<adapters, osVars>>
    /\ UNCHANGED notPlugVars

\* A plausible slip: the destructor passes NULL to dealloc.
dealloc_arg_null(a) == NullPtr

\* The argument of (*plugin.dealloc)(user_data) in the destructor of adapter a
dealloc_arg(a) == a.user_data

\* The adapter the constructor leaves behind: its plugin (copied from the registry)
\* and its user_data; name and allocRet record what it was constructed from, deallocs
\* the handles its destructor has passed to dealloc.
NewAdapter(name, plugin, handle) ==
  [name |-> name, plugin |-> plugin, user_data |-> handle, live |-> TRUE,
   allocRet |-> handle, deallocs |-> <<>>]

\* mmio_plugin_device_t::mmio_plugin_device_t(name, args) with an unregistered name:
\* mmio_plugin_map().at(name) throws std::out_of_range before alloc is reached
ConstructUnknown(name, args) ==
  /\ name \notin DOMAIN mmio_plugin_map
  /\ plugRes' = [PlugIdle EXCEPT !.op = "construct", !.name = name, !.threw = "out_of_range"]
  /\ UNCHANGED <<mmio_plugin_map, regLog, adapters, osVars>>
  /\ UNCHANGED notPlugVars

\* mmio_plugin_device_t::mmio_plugin_device_t(name, args) where the name is registered
\* to the file plugin: plugin(map.at(name)), user_data((*plugin.alloc)(args.c_str()))
ConstructFile(name, args, oc) ==
  /\ name \in DOMAIN mmio_plugin_map
  /\ mmio_plugin_map[name] = "file_plugin"
  /\ Len(adapters) < MaxAdapters
  /\ LET r == file_plugin_alloc(args, oc, openFds, liveMaps, fileHeap)
         mapsDom == DOMAIN liveMaps
     IN
       /\ openFds' = IF r.fdOpen THEN openFds \cup {r.fd} ELSE openFds
       /\ liveMaps' = IF r.mapLive
                        THEN [k \in mapsDom \cup {r.addr} |->
                                IF k = r.addr
                                  THEN [length |-> r.length, writable |-> r.writable]
                                  ELSE liveMaps[k]]
                        ELSE liveMaps
       /\ fileHeap' = IF r.ret # NullPtr
                        THEN [k \in DOMAIN fileHeap \cup {r.ret} |->
                                IF k = r.ret THEN r.data ELSE fileHeap[k]]
                        ELSE fileHeap
       /\ adapters' = Append(adapters, NewAdapter(name, "file_plugin", r.ret))
       /\ plugRes' = [PlugIdle EXCEPT !.op = "construct", !.name = name, !.args = args,
                                      !.obj = Len(adapters) + 1,
                                      !.invoked = <<PluginCall("alloc", "file_plugin", r.ret)>>,
                                      !.alloc = r]
  /\ UNCHANGED <<mmio_plugin_map, regLog, fileBytes>>
  /\ UNCHANGED notPlugVars

\* The constructor where the name is registered to a user plugin
ConstructUser(name, args, ok) ==
  /\ name \in DOMAIN mmio_plugin_map
  /\ mmio_plugin_map[name] \in UserPlugins
  /\ Len(adapters) < MaxAdapters
  /\ LET h == IF ok THEN UserHandle(Len(adapters) + 1) ELSE NullPtr IN
       /\ adapters' = Append(adapters, NewAdapter(name, mmio_plugin_map[name], h))
       /\ plugRes' = [PlugIdle EXCEPT !.op = "construct", !.name = name,
                                      !.obj = Len(adapters) + 1,
                                      !.invoked = <<PluginCall("alloc", mmio_plugin_map[name], h)>>]
  /\ UNCHANGED <<mmio_plugin_map, regLog, osVars>>
  /\ UNCHANGED notPlugVars

\* mmio_plugin_device_t::~mmio_plugin_device_t(): (*plugin.dealloc)(user_data)
Destroy(i) ==
  /\ adapters[i].live
  /\ LET a == adapters[i]
         h == dealloc_arg(a)
         r == IF a.plugin = "file_plugin"
                THEN file_plugin_dealloc(h, fileHeap, liveMaps)
                ELSE [maps |-> liveMaps, heap |-> fileHeap]
     IN
       /\ liveMaps' = r.maps
       /\ fileHeap' = r.heap
       /\ adapters' = [adapters EXCEPT ![i].live = FALSE,
                                       ![i].deallocs = Append(a.deallocs, h)]
       /\ plugRes' = [PlugIdle EXCEPT !.op = "destroy", !.obj = i,
                                      !.invoked = <<PluginCall("dealloc", a.plugin, h)>>]
  /\ UNCHANGED <<mmio_plugin_map, regLog, openFds, fileBytes>>
  /\ UNCHANGED notPlugVars

\* What undefined behaviour comes to in a call an adapter makes.  A call on the null
\* handle reads no byte of a mapping and a call on another handle returns what the code
\* returns, so one choice r stands for both: the value returned, or the byte read.
AdapterUb(r) == [ret |-> r, junk |-> IF r THEN Max(JunkBytes) ELSE Min(JunkBytes)]

\* The arguments mmio_plugin_device_t::load and store pass on besides user_data.
adapter_forward(offset, len, bytes) ==
  [offset |-> offset, len |-> len, bytes |-> bytes]

\* mmio_plugin_device_t::load(addr, len, bytes):
\* return (*plugin.load)(user_data, addr, len, bytes).  A user plugin's load answers r
\* and fills the buffer when it accepts.
AdapterLoad(i, offset, len) ==
  /\ adapters[i].live
  /\ LET a == adapters[i]
         f == adapter_forward(offset, len, LoadBuf(len))
     IN
       \E r \in BOOLEAN :
         LET res == IF a.plugin = "file_plugin"
                      THEN file_plugin_load(a.user_data, f.offset, f.len, f.bytes,
                                            fileHeap, liveMaps, fileBytes, AdapterUb(r))
                      ELSE AccessResult(r, FALSE,
                                        IF r THEN [k \in 1..f.len |-> 0] ELSE f.bytes,
                                        fileBytes)
         IN plugRes' = [PlugIdle EXCEPT !.op = "load", !.obj = i, !.offset = offset,
                                        !.len = len, !.bufIn = LoadBuf(len),
                                        !.buf = res.buffer,
                                        !.ret = res.ret,
                                        !.ub = res.ub,
                                        !.invoked = <<PluginCall("load", a.plugin, a.user_data)>>,
                                        !.fwd = [offset |-> f.offset, len |-> f.len,
                                                 bytes |-> f.bytes, ret |-> res.ret]]
  /\ UNCHANGED <<mmio_plugin_map, regLog, adapters, osVars>>
  /\ UNCHANGED notPlugVars

\* mmio_plugin_device_t::store(addr, len, bytes):
\* return (*plugin.store)(user_data, addr, len, bytes)
AdapterStore(i, offset, len) ==
  /\ adapters[i].live
  /\ LET a == adapters[i]
         f == adapter_forward(offset, len, StoreBuf(1, len))
     IN
       \E r \in BOOLEAN :
         LET res == IF a.plugin = "file_plugin"
                      THEN file_plugin_store(a.user_data, f.offset, f.len, f.bytes,
                                             fileHeap, liveMaps, fileBytes, AdapterUb(r))
                      ELSE AccessResult(r, FALSE, f.bytes, fileBytes)
         IN /\ plugRes' = [PlugIdle EXCEPT !.op = "store", !.obj = i, !.offset = offset,
                                           !.len = len, !.bufIn = StoreBuf(1, len),
                                           !.buf = res.buffer,
                                           !.ret = res.ret,
                                           !.ub = res.ub,
                                           !.invoked = <<PluginCall("store", a.plugin, a.user_data)>>,
                                           !.fwd = [offset |-> f.offset, len |-> f.len,
                                                    bytes |-> f.bytes, ret |-> res.ret]]
            /\ fileBytes' = res.file
  /\ UNCHANGED <<mmio_plugin_map, regLog, adapters, openFds, liveMaps, fileHeap>>
  /\ UNCHANGED notPlugVars

(***************************************************************************)
(* The file plugin's functions called directly, as the adapter of a device *)
(* constructed with the name "file" calls them: alloc once, then loads and *)
(* stores on the handle alloc returned, then dealloc.                      *)
(***************************************************************************)
\* At most MaxFileOps direct calls are made.
MaxFileOps == 3

\* At most MaxHandles handles are live at a time.
MaxHandles == 1

\* No undefined behaviour is involved.
NoUb == [ret |-> FALSE, junk |-> 0]

\* The args alloc is called with: "f", "w:f", "ww:f", ":f", "wx:f", "x:f", "e",
\* "f:w" and "w:n:f".
FileArgs ==
  {<<"f">>, <<"w", ":", "f">>, <<"w", "w", ":", "f">>, <<":", "f">>,
   <<"w", "x", ":", "f">>, <<"x", ":", "f">>, <<"e">>, <<"f", ":", "w">>,
   <<"w", ":", "n", ":", "f">>}

\* The offsets and widths of the loads and stores: the first byte, the last byte, one
\* past the last; no byte, one byte, two bytes.
FileOffsets == {0, FileLen - 1, FileLen}

FileWidths == {0, 1, 2}

NoStore == [valid |-> FALSE, h |-> NullPtr, offset |-> 0, width |-> 0, bytes |-> <<>>]

FileIdle ==
  [op |-> "none", args |-> <<>>, h |-> NullPtr, offset |-> 0, width |-> 0,
   bufIn |-> <<>>, buf |-> <<>>, ret |-> FALSE, ub |-> FALSE, before |-> <<>>,
   alloc |-> NoAlloc]

FileCallInitVars ==
  /\ fileRes = FileIdle
  /\ fileOps = 0
  /\ handleArgs = <<>>
  /\ lastStore = NoStore

\* void* h = file_plugin_alloc(args)
FileAlloc(args, oc) ==
  /\ fileOps < MaxFileOps
  /\ Cardinality(DOMAIN fileHeap) < MaxHandles
  /\ fileOps' = fileOps + 1
  /\ LET r == file_plugin_alloc(args, oc, openFds, liveMaps, fileHeap) IN
       /\ openFds' = IF r.fdOpen THEN openFds \cup {r.fd} ELSE openFds
       /\ liveMaps' = IF r.mapLive
                        THEN [k \in DOMAIN liveMaps \cup {r.addr} |->
                                IF k = r.addr
                                  THEN [length |-> r.length, writable |-> r.writable]
                                  ELSE liveMaps[k]]
                        ELSE liveMaps
       /\ fileHeap' = IF r.ret # NullPtr
                        THEN [k \in DOMAIN fileHeap \cup {r.ret} |->
                                IF k = r.ret THEN r.data ELSE fileHeap[k]]
                        ELSE fileHeap
       /\ handleArgs' = IF r.ret # NullPtr
                          THEN [k \in DOMAIN handleArgs \cup {r.ret} |->
                                  IF k = r.ret THEN args ELSE handleArgs[k]]
                          ELSE handleArgs
       /\ fileRes' = [FileIdle EXCEPT !.op = "alloc", !.args = args, !.h = r.ret,
                                      !.before = fileBytes, !.alloc = r]
  /\ UNCHANGED <<fileBytes, lastStore>>
  /\ UNCHANGED notFileVars

\* file_plugin_load(h, offset, width, buffer) on a handle alloc returned; junk is what
\* the bytes outside the mapping read as
FileLoad(h, offset, width, junk) ==
  /\ fileOps < MaxFileOps
  /\ fileOps' = fileOps + 1
  /\ h \in DOMAIN fileHeap
  /\ LET res == file_plugin_load(h, offset, width, LoadBuf(width),
                                 fileHeap, liveMaps, fileBytes,
                                 [ret |-> FALSE, junk |-> junk])
     IN fileRes' = [FileIdle EXCEPT !.op = "load", !.args = handleArgs[h], !.h = h,
                                    !.offset = offset, !.width = width,
                                    !.bufIn = LoadBuf(width), !.buf = res.buffer,
                                    !.ret = res.ret, !.ub = res.ub,
                                    !.before = fileBytes]
  /\ UNCHANGED <<osVars, handleArgs, lastStore>>
  /\ UNCHANGED notFileVars

\* file_plugin_store(h, offset, width, buffer) on a handle alloc returned
FileStore(h, offset, width) ==
  /\ fileOps < MaxFileOps
  /\ fileOps' = fileOps + 1
  /\ h \in DOMAIN fileHeap
  /\ LET in == StoreBuf(fileOps + 1, width)
         res == file_plugin_store(h, offset, width, in,
                                  fileHeap, liveMaps, fileBytes, NoUb)
     IN /\ fileBytes' = res.file
        /\ fileRes' = [FileIdle EXCEPT !.op = "store", !.args = handleArgs[h], !.h = h,
                                       !.offset = offset, !.width = width,
                                       !.bufIn = in, !.buf = res.buffer,
                                       !.ret = res.ret, !.ub = res.ub,
                                       !.before = fileBytes]
        /\ lastStore' = IF res.ret
                          THEN [valid |-> TRUE, h |-> h, offset |-> offset,
                                width |-> width, bytes |-> in]
                          ELSE lastStore
  /\ UNCHANGED <<openFds, liveMaps, fileHeap, handleArgs>>
  /\ UNCHANGED notFileVars

\* file_plugin_dealloc(h) on a handle alloc returned
FileDealloc(h) ==
  /\ fileOps < MaxFileOps
  /\ fileOps' = fileOps + 1
  /\ h \in DOMAIN fileHeap
  /\ LET r == file_plugin_dealloc(h, fileHeap, liveMaps) IN
       /\ liveMaps' = r.maps
       /\ fileHeap' = r.heap
       /\ handleArgs' = Without(handleArgs, h)
       /\ lastStore' = IF lastStore.h = h THEN NoStore ELSE lastStore
       /\ fileRes' = [FileIdle EXCEPT !.op = "dealloc", !.args = handleArgs[h], !.h = h,
                                      !.before = fileBytes]
  /\ UNCHANGED <<openFds, fileBytes>>
  /\ UNCHANGED notFileVars

(***************************************************************************)
(* The specifications.                                                     *)
(***************************************************************************)
BusInit == BusInitVars /\ MemInitVars /\ PlugInitVars /\ FileCallInitVars

BusNext ==
  \/ \E addr \in Addrs, dev \in Devs : AddDevice(addr, dev)
  \/ \E addr \in Addrs, len \in BusLens : BusLoad(addr, len)
  \/ \E addr \in Addrs, len \in BusLens : BusStore(addr, len)
  \/ \E addr \in Addrs : BusFindDevice(addr)

BusSpec == BusInit /\ [][BusNext]_vars

MemInit == BusInitVars /\ MemInitVars /\ PlugInitVars /\ FileCallInitVars

MemNext ==
  \/ \E size \in MemSizes : MemConstruct(size)
  \/ \E addr \in RegVals, len \in MemLens : MemLoad(addr, len)
  \/ \E addr \in RegVals, len \in MemLens : MemStore(addr, len)
  \/ MemDestroy

MemSpec == MemInit /\ [][MemNext]_vars

PluginInit == BusInitVars /\ MemInitVars /\ PlugInitVars /\ FileCallInitVars

PluginNext ==
  \/ \E c \in RegCalls : RegisterMmioPlugin(c[1], c[2])
  \/ \E name \in PluginNames, args \in PluginArgs : ConstructUnknown(name, args)
  \/ \E name \in PluginNames, args \in PluginArgs, oc \in FileOutcomes :
       ConstructFile(name, args, oc)
  \/ \E name \in PluginNames, args \in PluginArgs, ok \in BOOLEAN :
       ConstructUser(name, args, ok)
  \/ \E i \in 1..Len(adapters) : Destroy(i)
  \/ \E i \in 1..Len(adapters), offset \in PlugOffsets, len \in PlugLens :
       AdapterLoad(i, offset, len)
  \/ \E i \in 1..Len(adapters), offset \in PlugOffsets, len \in PlugLens :
       AdapterStore(i, offset, len)

PluginSpec == PluginInit /\ [][PluginNext]_vars

FileInit == BusInitVars /\ MemInitVars /\ PlugInitVars /\ FileCallInitVars

FileNext ==
  \/ \E args \in FileArgs, oc \in FileOutcomes : FileAlloc(args, oc)
  \/ \E h \in DOMAIN fileHeap, offset \in FileOffsets, width \in FileWidths,
        junk \in JunkBytes : FileLoad(h, offset, width, junk)
  \/ \E h \in DOMAIN fileHeap, offset \in FileOffsets, width \in FileWidths :
       FileStore(h, offset, width)
  \/ \E h \in DOMAIN fileHeap : FileDealloc(h)

FileSpec == FileInit /\ [][FileNext]_vars

\* The bus and the adapters together.  They share no state, so interleaving their
\* operations adds nothing to what each does: a behaviour is one of the bus with no
\* plugin operation made, or one of the registry and the adapters with no bus
\* operation made.
DeviceInit == BusInitVars /\ MemInitVars /\ PlugInitVars /\ FileCallInitVars

DeviceNext ==
  \/ PlugInitVars /\ BusNext
  \/ BusInitVars /\ PluginNext

DeviceSpec == DeviceInit /\ [][DeviceNext]_vars

(***************************************************************************)
(* The bus's claims.                                                       *)
(***************************************************************************)
\* The bases bound at or below addr.
BasesAtOrBelow(addr) == {b \in DOMAIN devices : b <= addr}

\* C1: a bus load or store at address a calls the load (store) of the device bound at
\* the largest base b <= a, once, with offset a - b and the caller's length; when no
\* base is <= a (an empty bus included) it returns false, calls no device and leaves
\* the caller's buffer as it was.
C1_Routing ==
  busRes.op \in {"load", "store"} =>
    LET lower == BasesAtOrBelow(busRes.addr) IN
      IF lower = {}
        THEN /\ busRes.ret = FALSE
             /\ busRes.invoked = <<>>
             /\ busRes.buf = CallerBuf
        ELSE busRes.invoked =
               <<[dev |-> devices[Max(lower)], fn |-> busRes.op,
                  off |-> busRes.addr - Max(lower), len |-> busRes.len]>>

\* C1's case: two bases are bound and a load between them went to the lower one at a
\* non-zero offset.
C1_Witness ==
  /\ busRes.op = "load"
  /\ Cardinality(DOMAIN devices) >= 2
  /\ busRes.invoked # <<>>
  /\ busRes.invoked[1].off > 0
  /\ \E b \in DOMAIN devices : b > busRes.addr

\* The table the add_device calls made so far describe: each base ever added, bound
\* to the device of the latest call for it.
LastWriter(log) ==
  LET bases == {log[i].base : i \in 1..Len(log)} IN
    [b \in bases |-> log[Max({i \in 1..Len(log) : log[i].base = b})].dev]

\* The devices every one of whose add_device calls has been followed by a later call
\* for the same base with another device.
Superseded(log) ==
  {d \in Devs :
     /\ \E i \in 1..Len(log) : log[i].dev = d
     /\ \A i \in 1..Len(log) :
          log[i].dev = d =>
            \E j \in (i + 1)..Len(log) : log[j].base = log[i].base /\ log[j].dev # d}

\* C2: after any sequence of add_device, load, store and find_device calls the table is
\* the last-writer-wins map of the add_device calls (so no binding is removed, and load,
\* store and find_device change none), and no address reaches a superseded device.
C2_LastWriterWins ==
  /\ devices = LastWriter(addLog)
  /\ \A d \in Superseded(addLog), a \in Addrs :
       /\ bus_find_device(devices, a)[2] # d
       /\ bus_load_target(devices, a).dev # d
       /\ bus_store_target(devices, a).dev # d

\* C2's case: a base was rebound to another device, and a load was made afterwards.
C2_Witness ==
  /\ Superseded(addLog) # {}
  /\ busRes.op = "load"
  /\ busRes.invoked # <<>>

\* The floor lookup as the claim states it.
Floor(addr) ==
  IF BasesAtOrBelow(addr) = {}
    THEN <<0, NULL>>
    ELSE <<Max(BasesAtOrBelow(addr)), devices[Max(BasesAtOrBelow(addr))]>>

\* C3: find_device(addr) is the sentinel (0, NULL) when no base is <= addr, else (b, d)
\* with b the largest base <= addr and d the device bound there; load and store at addr
\* delegate to exactly that device, with offset addr - b.
C3_FindDevice ==
  /\ busRes.op = "find_device" => busRes.found = Floor(busRes.addr)
  /\ \A a \in Addrs :
       LET f == bus_find_device(devices, a)
           l == bus_load_target(devices, a)
           s == bus_store_target(devices, a)
       IN /\ f = Floor(a)
          /\ l.found = (f[2] # NULL)
          /\ s.found = (f[2] # NULL)
          /\ l.found => l.dev = f[2] /\ l.base = f[1] /\ l.off = a - f[1]
          /\ s.found => s.dev = f[2] /\ s.base = f[1] /\ s.off = a - f[1]

\* C3's case: find_device answered with a device bound strictly below the address
\* while another base is bound above it.
C3_Witness ==
  /\ busRes.op = "find_device"
  /\ busRes.found[2] # NULL
  /\ busRes.found[1] < busRes.addr
  /\ \E b \in DOMAIN devices : b > busRes.addr

(***************************************************************************)
(* The sparse memory device's claims.                                      *)
(***************************************************************************)
\* The byte a one-byte load at address a returns.
ObservedByte(a) ==
  load_store(sparse_memory_map, memSz, a, 1, LoadBuf(1), FALSE).bytes[1]

\* C4: for any sequence of in-range stores and loads, every byte of the device reads as
\* the byte of the latest store covering it, and as zero when no store covered it; a
\* load of [addr, addr + len) succeeds and returns those bytes in order, also when the
\* range straddles a page boundary.
C4_ReadYourWrites ==
  /\ \A a \in 0..(memSz - 1) : ObservedByte(a) = shadow[a]
  /\ (memRes.op = "load" /\ memRes.addr + memRes.len <= memSz) =>
       /\ memRes.ret = TRUE
       /\ memRes.buf = [i \in 1..memRes.len |-> shadow[memRes.addr + i - 1]]
  /\ (memRes.op = "store" /\ memRes.addr + memRes.len <= memSz) => memRes.ret = TRUE

\* C4's case: a load that straddles a page boundary returned bytes of an earlier store
\* on both pages.
C4_Witness ==
  /\ memRes.op = "load"
  /\ memRes.ret = TRUE
  /\ memRes.addr \div PGSIZE # (memRes.addr + memRes.len - 1) \div PGSIZE
  /\ memRes.len >= 2
  /\ memRes.buf[1] # 0
  /\ memRes.buf[memRes.len] # 0

\* C5: an access whose addr + length wraps around the address width or exceeds the
\* device size returns false, changes no byte of the caller's buffer and no byte of
\* memory, and allocates no page.
C5_NoPartialEffect ==
  [][(memOps' # memOps /\ memRes'.addr + memRes'.len > memSz) =>
       /\ memRes'.ret = FALSE
       /\ memRes'.buf = memRes'.bufIn
       /\ sparse_memory_map' = sparse_memory_map]_vars

\* C5's case: a store that starts inside the device and runs past its end was refused
\* after an earlier access had allocated the page it starts in.
C5_Witness ==
  /\ memRes.op = "store"
  /\ memRes.ret = FALSE
  /\ memRes.addr < memSz
  /\ memRes.addr + memRes.len > memSz
  /\ memRes.addr + memRes.len < RegMod
  /\ (memRes.addr \div PGSIZE) \in DOMAIN sparse_memory_map

(***************************************************************************)
(* The plugin registry's and the adapter's claims.                         *)
(***************************************************************************)
\* The plugin of the earliest register_mmio_plugin call for name n.
FirstRegistered(log, n) ==
  log[Min({i \in 1..Len(log) : log[i].name = n})].plugin

\* C6: register_mmio_plugin succeeds for a name not yet registered and throws for one
\* that is; a call that throws leaves the registry as it was, so every name stays bound
\* to the plugin of its first registration, no name disappears, and every device
\* constructed with a name uses that first plugin.
C6_FirstRegistrationWins ==
  /\ DOMAIN mmio_plugin_map = {regLog[i].name : i \in 1..Len(regLog)}
  /\ \A n \in DOMAIN mmio_plugin_map : mmio_plugin_map[n] = FirstRegistered(regLog, n)
  /\ plugRes.op = "register" =>
       /\ plugRes.name = regLog[Len(regLog)].name
       /\ (plugRes.threw = "runtime_error") <=>
            (\E j \in 1..(Len(regLog) - 1) : regLog[j].name = plugRes.name)
       /\ plugRes.threw \in {"none", "runtime_error"}
  /\ \A i \in 1..Len(adapters) :
       adapters[i].plugin = FirstRegistered(regLog, adapters[i].name)

\* C6's case: "dup" was registered with D, then again with D2, and a device was then
\* constructed with the name "dup".
C6_Witness ==
  /\ \E i, j \in 1..Len(regLog) :
       /\ i < j
       /\ regLog[i] = [name |-> "dup", plugin |-> "D"]
       /\ regLog[j] = [name |-> "dup", plugin |-> "D2"]
  /\ plugRes.op = "construct"
  /\ plugRes.name = "dup"
  /\ plugRes.obj # 0

\* C7: when a plugin's alloc returns the null handle, no adapter exists that holds it,
\* and no load, store or dealloc of a plugin is called with it.
C7_NoNullHandle ==
  /\ \A i \in 1..Len(adapters) : adapters[i].user_data # NullPtr
  /\ \A k \in 1..Len(plugRes.invoked) :
       plugRes.invoked[k].fn \in {"load", "store", "dealloc"} =>
         plugRes.invoked[k].handle # NullPtr

\* The number of alloc calls made to plugin p (one by each constructor that reached
\* it), and of dealloc calls.
AllocCalls(p) == Cardinality({i \in 1..Len(adapters) : adapters[i].plugin = p})

RECURSIVE DeallocCallsUpTo(_, _)
DeallocCallsUpTo(p, n) ==
  IF n = 0 THEN 0
  ELSE DeallocCallsUpTo(p, n - 1)
       + (IF adapters[n].plugin = p THEN Len(adapters[n].deallocs) ELSE 0)

DeallocCalls(p) == DeallocCallsUpTo(p, Len(adapters))

\* C8: constructing with an unregistered name throws without any alloc call; a
\* construction with a registered name calls that plugin's alloc once and keeps what
\* it returned; the destructor calls the same plugin's dealloc once, with that handle;
\* loads and stores are forwarded only before it; dealloc calls never outnumber alloc
\* calls.
C8_Lifecycle ==
  /\ plugRes.op = "construct" =>
       IF plugRes.name \notin DOMAIN mmio_plugin_map
         THEN /\ plugRes.threw = "out_of_range"
              /\ plugRes.invoked = <<>>
              /\ plugRes.obj = 0
         ELSE /\ plugRes.threw = "none"
              /\ plugRes.obj = Len(adapters)
              /\ plugRes.invoked =
                   <<PluginCall("alloc", mmio_plugin_map[plugRes.name],
                                adapters[plugRes.obj].user_data)>>
  /\ \A i \in 1..Len(adapters) :
       /\ adapters[i].user_data = adapters[i].allocRet
       /\ adapters[i].deallocs =
            IF adapters[i].live THEN <<>> ELSE <<adapters[i].allocRet>>
  /\ plugRes.op = "destroy" =>
       plugRes.invoked =
         <<PluginCall("dealloc", adapters[plugRes.obj].plugin, adapters[plugRes.obj].allocRet)>>
  /\ plugRes.op \in {"load", "store"} =>
       /\ adapters[plugRes.obj].live
       /\ adapters[plugRes.obj].deallocs = <<>>
  /\ \A p \in Range(mmio_plugin_map) : DeallocCalls(p) <= AllocCalls(p)

\* C8's case: a file-plugin device whose alloc produced a handle has been destroyed.
C8_Witness ==
  /\ plugRes.op = "destroy"
  /\ adapters[plugRes.obj].plugin = "file_plugin"
  /\ adapters[plugRes.obj].allocRet # NullPtr
  /\ ~adapters[plugRes.obj].live

(***************************************************************************)
(* The file plugin's claims.                                               *)
(***************************************************************************)
\* The last operation was a construction that called file_plugin_alloc.
FileAllocCalled == plugRes.op = "construct" /\ plugRes.alloc.step # "none"

\* C9: whenever file_plugin_alloc returns failure, at whichever step, the descriptor it
\* opened is closed and the mapping it established is unmapped.
C9_FailedAllocReleases ==
  (FileAllocCalled /\ plugRes.alloc.ret = NullPtr) =>
    /\ plugRes.alloc.fd \notin openFds
    /\ plugRes.alloc.addr \notin DOMAIN liveMaps

\* The path and the writable flag the argument grammar [<flags>:]<path> gives.
ArgsPath(args) ==
  IF strchr_colon(args) = 0 THEN args
  ELSE SubSeq(args, strchr_colon(args) + 1, Len(args))

ArgsWritable(args) == \E i \in 1..(strchr_colon(args) - 1) : args[i] = "w"

\* C10: file_plugin_alloc returns a handle only if the file was opened, its length is
\* greater than zero, the mapping was established and the descriptor was closed; the
\* handle records that mapping, the file's length and the writable flag of the
\* arguments.
C10_HandleIsValid ==
  (FileAllocCalled /\ plugRes.alloc.ret # NullPtr) =>
    LET h == plugRes.alloc.ret
        path == ArgsPath(plugRes.args)
    IN /\ FsExists(path)
       /\ FsLength(path) > 0
       /\ h \in DOMAIN fileHeap
       /\ fileHeap[h].addr \in DOMAIN liveMaps
       /\ fileHeap[h].length = FsLength(path)
       /\ liveMaps[fileHeap[h].addr].length = FsLength(path)
       /\ fileHeap[h].writable = ArgsWritable(plugRes.args)
       /\ plugRes.alloc.fd \notin openFds

\* The device of the last direct call was opened without the w flag.
OpenedReadOnly == fileRes.h # NullPtr /\ ~ArgsWritable(fileRes.args)

\* What a load of width bytes at offset on handle h returns when the file holds file.
LoadOf(h, offset, width, file) ==
  file_plugin_load(h, offset, width, LoadBuf(width), fileHeap, liveMaps, file, NoUb)

\* C11: on a file-plugin device opened without the w flag every store, whatever its
\* offset and length, returns false and changes no byte of the mapping and of the
\* file; every load on the device returns after the store what it returned before.
C11_ReadOnlyRefusesStore ==
  (fileRes.op = "store" /\ OpenedReadOnly) =>
    /\ fileRes.ret = FALSE
    /\ ~fileRes.ub
    /\ fileBytes = fileRes.before
    /\ \A offset \in FileOffsets, width \in FileWidths :
         LoadOf(fileRes.h, offset, width, fileBytes)
           = LoadOf(fileRes.h, offset, width, fileRes.before)

\* C11's case: a store of two bytes at offset 0 was made on a device opened without
\* w, whose mapping is established.
C11_Witness ==
  /\ fileRes.op = "store"
  /\ OpenedReadOnly
  /\ fileRes.offset = 0
  /\ fileRes.width = 2
  /\ fileHeap[fileRes.h].addr \in DOMAIN liveMaps

\* The handle of the last direct call records a mapping that is established (the
\* handles alloc returns after a failed mmap do not).
MappingEstablished ==
  /\ fileRes.h \in DOMAIN fileHeap
  /\ fileHeap[fileRes.h].addr \in DOMAIN liveMaps

\* C12: on a device opened with w (its mapping established), a load at the offset and
\* with the length of the last accepted store, no store made in between, succeeds and
\* returns the bytes stored; an accepted store changes no byte of the mapping outside
\* [offset, offset + length).
C12_StoreThenLoad ==
  /\ ( /\ fileRes.op = "load"
       /\ MappingEstablished
       /\ lastStore.valid
       /\ lastStore.h = fileRes.h
       /\ lastStore.offset = fileRes.offset
       /\ lastStore.width = fileRes.width ) =>
       /\ fileRes.ret = TRUE
       /\ fileRes.buf = lastStore.bytes
  /\ (fileRes.op = "store" /\ fileRes.ret) =>
       \A a \in DOMAIN fileBytes :
         (a < fileRes.offset \/ a >= fileRes.offset + fileRes.width) =>
           fileBytes[a] = fileRes.before[a]

\* C13: a file-plugin load or store (on a handle whose mapping is established) whose
\* offset + length is greater than the mapped length returns false, so an accepted one
\* touches no byte outside the mapping.
C13_NoAccessPastEnd ==
  (fileRes.op \in {"load", "store"} /\ MappingEstablished /\ fileRes.ret) =>
    /\ fileRes.offset + fileRes.width <= fileHeap[fileRes.h].length
    /\ ~fileRes.ub

(***************************************************************************)
(* The sparse memory device's construction, chunk loop and pages.          *)
(***************************************************************************)
\* C14: constructing a sparse memory device throws exactly when the size is 0 or not a
\* multiple of the page size, and then no device exists; a device that exists has a
\* size that is a positive multiple of the page size, and its size never changes.
C14_ConstructorValidates ==
  /\ [](/\ memRes.op = "construct" =>
             /\ memRes.threw <=> (memRes.size = 0 \/ memRes.size % PGSIZE # 0)
             /\ memRes.threw <=> (memLive = "none")
             /\ ~memRes.threw => memSz = memRes.size
        /\ memLive # "none" => (memSz > 0 /\ memSz % PGSIZE = 0))
  /\ [][memLive # "none" => memSz' = memSz]_vars

\* C14's case: a construction with a size that is neither 0 nor a multiple of the page
\* size has thrown.
C14_Witness ==
  /\ memRes.op = "construct"
  /\ memRes.threw
  /\ memRes.size > PGSIZE
  /\ memLive = "none"

RECURSIVE ChunkTotal(_)
ChunkTotal(chunks) ==
  IF chunks = <<>> THEN 0 ELSE Head(chunks).n + ChunkTotal(Tail(chunks))

\* The byte of memory at address a: the page's byte, zero when the page is absent.
ByteAt(map, a) ==
  IF (a \div PGSIZE) \in DOMAIN map THEN map[a \div PGSIZE][a % PGSIZE] ELSE 0

\* C17: an in-range access returns true after a loop that copies exactly len bytes: each
\* chunk has min(PGSIZE - (addr mod PGSIZE), remaining) > 0 bytes and lies in one page,
\* the chunks are contiguous from addr upwards, buffer byte i goes with memory byte
\* addr + i, and an access of length 0 copies nothing and allocates no page.
C17_ChunkLoop ==
  /\ []((memRes.op \in {"load", "store"} /\ memRes.addr + memRes.len <= memSz) =>
          LET ch == memRes.chunks IN
            /\ memRes.ret = TRUE
            /\ ChunkTotal(ch) = memRes.len
            /\ \A i \in 1..Len(ch) :
                 LET left == memRes.len - ch[i].pos
                     room == PGSIZE - (ch[i].addr % PGSIZE)
                 IN /\ ch[i].n = (IF room < left THEN room ELSE left)
                    /\ ch[i].n > 0
                    /\ ch[i].addr \div PGSIZE = (ch[i].addr + ch[i].n - 1) \div PGSIZE
                    /\ ch[i].ppn = ch[i].addr \div PGSIZE
                    /\ ch[i].pgoff = ch[i].addr % PGSIZE
                    /\ ch[i].addr = memRes.addr + ch[i].pos
                    /\ ch[i].pos = (IF i = 1 THEN 0 ELSE ch[i - 1].pos + ch[i - 1].n)
            /\ memRes.len = 0 => (ch = <<>> /\ memRes.buf = memRes.bufIn)
            /\ memRes.op = "store" =>
                 \A i \in 1..memRes.len :
                   ByteAt(sparse_memory_map, memRes.addr + i - 1) = memRes.bufIn[i]
            /\ memRes.op = "load" =>
                 \A i \in 1..memRes.len :
                   memRes.buf[i] = ByteAt(sparse_memory_map, memRes.addr + i - 1))
  /\ [][(memOps' # memOps /\ memRes'.len = 0) =>
          UNCHANGED <<sparse_memory_map, pageAllocs>>]_vars

\* C17's case: a store that starts in the middle of a page and ends in the next one
\* was made in two chunks.
C17_Witness ==
  /\ memRes.op = "store"
  /\ memRes.ret = TRUE
  /\ Len(memRes.chunks) = 2
  /\ memRes.chunks[1].pgoff > 0
  /\ memRes.chunks[1].n < PGSIZE

\* C18: the allocated pages are exactly the pages overlapped by the accepted accesses
\* of non-zero length made so far, loads included; each lies below size / PGSIZE and
\* was allocated once; none is freed while the device lives, and the destructor frees
\* each once.
C18_PageSet ==
  /\ DOMAIN sparse_memory_map = touched
  /\ \A p \in DOMAIN sparse_memory_map : p >= 0 /\ p < memSz \div PGSIZE
  /\ DOMAIN pageAllocs = touched
  /\ \A p \in touched : pageAllocs[p] = 1
  /\ memLive # "destroyed" => pageFrees = <<>>
  /\ memLive = "destroyed" =>
       /\ DOMAIN pageFrees = touched
       /\ \A p \in touched : pageFrees[p] = 1

\* C18's case: a device two of whose pages were allocated, one of them by a load, has
\* been destroyed.
C18_Witness ==
  /\ memLive = "destroyed"
  /\ Cardinality(touched) >= 2
  /\ \E p \in touched : sparse_memory_map[p] = ZeroPage

\* C19: an accepted store of n bytes at addr changes the value of no byte outside
\* [addr, addr + n), on the pages it writes and on the pages it allocates alike; a
\* load changes the value of no byte, also when it allocates a page.
C19_Frame ==
  [][(memOps' # memOps /\ (memRes'.op = "load" \/ memRes'.ret)) =>
       \A a \in 0..(memSz - 1) :
         (\/ memRes'.op = "load"
          \/ a < memRes'.addr
          \/ a >= memRes'.addr + memRes'.len) =>
           ByteAt(sparse_memory_map', a) = ByteAt(sparse_memory_map, a)]_vars

\* C19's case: a one-byte store has allocated the page it wrote, after an earlier
\* access had allocated another page.
C19_Witness ==
  /\ memRes.op = "store"
  /\ memRes.ret = TRUE
  /\ memRes.len = 1
  /\ memRes.chunks[1].alloc
  /\ Cardinality(DOMAIN sparse_memory_map) >= 2

(***************************************************************************)
(* Delegation by the bus and by the adapter; the file plugin's rejection   *)
(* rule and argument grammar.                                              *)
(***************************************************************************)
\* C15: a bus load or store calls at most one device and returns that device's answer
\* (false when it calls none); when the floor device refuses, the bus returns false and
\* no other device has been called, whatever is bound below it.  An adapter's load or
\* store calls its plugin's function once, with the handle it owns and the caller's
\* offset, length and buffer, and returns what the function returned.
C15_SingleShot ==
  /\ busRes.op \in {"load", "store"} =>
       /\ Len(busRes.invoked) <= 1
       /\ busRes.invoked = <<>> => busRes.ret = FALSE
       /\ busRes.invoked # <<>> =>
            /\ busRes.ret = busRes.devRet
            /\ busRes.invoked[1].dev = Floor(busRes.addr)[2]
            /\ busRes.invoked[1].fn = busRes.op
  /\ plugRes.op \in {"load", "store"} =>
       /\ plugRes.invoked =
            <<PluginCall(plugRes.op, adapters[plugRes.obj].plugin,
                         adapters[plugRes.obj].user_data)>>
       /\ plugRes.fwd.offset = plugRes.offset
       /\ plugRes.fwd.len = plugRes.len
       /\ plugRes.fwd.bytes = plugRes.bufIn
       /\ plugRes.ret = plugRes.fwd.ret

\* C15's case: two devices are bound at or below the address of a load, the upper one
\* was called and refused, and the bus returned false.
C15_Witness ==
  /\ busRes.op = "load"
  /\ Cardinality(BasesAtOrBelow(busRes.addr)) >= 2
  /\ Len(busRes.invoked) = 1
  /\ busRes.devRet = FALSE
  /\ busRes.ret = FALSE

\* C16: file_plugin_load returns false exactly when offset >= the handle's length, and
\* file_plugin_store exactly when the handle is not writable or offset >= its length;
\* so an access that starts inside the mapping and ends past it returns true.
C16_RejectionRule ==
  /\ fileRes.op = "load" =>
       (fileRes.ret = FALSE <=> fileRes.offset >= fileHeap[fileRes.h].length)
  /\ fileRes.op = "store" =>
       (fileRes.ret = FALSE <=>
          (~fileHeap[fileRes.h].writable \/ fileRes.offset >= fileHeap[fileRes.h].length))
  /\ ( /\ fileRes.op \in {"load", "store"}
       /\ fileRes.op = "store" => fileHeap[fileRes.h].writable
       /\ fileRes.offset < fileHeap[fileRes.h].length
       /\ fileRes.offset + fileRes.width > fileHeap[fileRes.h].length ) =>
       fileRes.ret = TRUE

\* C16's case: a load of two bytes at the last byte of an established mapping returned
\* true.
C16_Witness ==
  /\ fileRes.op = "load"
  /\ MappingEstablished
  /\ fileRes.offset + 1 = fileHeap[fileRes.h].length
  /\ fileRes.width = 2
  /\ fileRes.ret = TRUE

\* The flag characters of args: those before the first colon, none without a colon.
ArgsFlags(args) ==
  IF \E i \in 1..Len(args) : args[i] = ":"
    THEN {args[j] : j \in {k \in 1..Len(args) : \A i \in 1..k : args[i] # ":"}}
    ELSE {}

\* C20: alloc reads its argument as [<flags>:]<path>: without a colon the whole string
\* is the path and the device is read-only; with one, the characters before the first
\* colon are the flags and what follows it is the path; a flag other than w makes alloc
\* fail before it opens a file; otherwise the device is writable exactly when the
\* flags hold a w (so an empty flag set gives a read-only device).
C20_ArgumentGrammar ==
  fileRes.op = "alloc" =>
    LET flags == ArgsFlags(fileRes.args)
        r == fileRes.alloc
    IN IF flags \ {"w"} # {}
         THEN /\ r.ret = NullPtr
              /\ r.step = "flags"
              /\ r.filename = <<>>
              /\ r.fd = -1
         ELSE /\ r.step # "flags"
              /\ r.filename = ArgsPath(fileRes.args)
              /\ r.writable = ("w" \in flags)
              /\ r.ret # NullPtr =>
                   /\ fileHeap[r.ret].writable = ("w" \in flags)
                   /\ fileRes.h = r.ret

\* C20's case: alloc was called with "w:n:f": the flags are w and the path is "n:f",
\* which does not exist.
C20_Witness ==
  /\ fileRes.op = "alloc"
  /\ fileRes.args = <<"w", ":", "n", ":", "f">>
  /\ fileRes.alloc.step = "open"
  /\ fileRes.alloc.filename = <<"n", ":", "f">>
  /\ fileRes.alloc.writable

=============================================================================
